---- MODULE Spec2Model ----
(***************************************************************************)
(* Spotify -> YouTube playlist synchronisation (src/main.py).              *)
(*                                                                         *)
(* Spec      main(): load_state, enumerate source and destination, the     *)
(*           insertion loop, the re-enumeration, the reorder loop and the  *)
(*           conditional save_state, run repeatedly against a destination  *)
(*           playlist and a source playlist that other parties may edit    *)
(*           between runs.  A run may be interrupted at any step, and      *)
(*           every provider call may fail.                                 *)
(* WideSpec  the same program under wider bounds on the playlists.         *)
(* EnumSpec  the two pagination loops, spotify_tracks and                  *)
(*           youtube_playlist_items, over provider page sequences.         *)
(***************************************************************************)
EXTENDS Integers, Sequences, FiniteSets, TLC

\* ------------------------------------------------------------------ bounds
\* Spec: tracks on the source platform, longest source playlist, longest source
\* playlist holding a track twice, runs of main(), edits by other parties.
NumTracks == 2
MaxSrc == 2
MaxDup == 1
MaxRuns == 2
MaxEnv == 1
\* WideSpec: the same.
WideTracks == 4
WideSrc == 4
WideDup == 2
WideRuns == 3
WideEnv == 1
MaxItems == 6
\* The page sizes the enumerators ask for (100 and 50 in the source), scaled down.
Limit == 2
MaxResults == 2

Tracks == 1..(IF NumTracks > WideTracks THEN NumTracks ELSE WideTracks)

\* ----------------------------------------------------------- sequence helpers
RECURSIVE SeqsUpTo(_, _)
SeqsUpTo(S, n) ==
    IF n = 0 THEN {<<>>}
    ELSE LET shorter == SeqsUpTo(S, n - 1)
         IN  shorter \cup {Append(s, x) : s \in {t \in shorter : Len(t) = n - 1}, x \in S}

Range(s) == {s[k] : k \in 1..Len(s)}

NoDup(s) == \A a, b \in 1..Len(s) : s[a] = s[b] => a = b

Min(a, b) == IF a < b THEN a ELSE b

\* The playlists the source platform can hold: the entries that survive the
\* enumerator's filter, in playlist order.  A playlist may hold a track more
\* than once; those are kept shorter.
Playlists(n, len, dup) ==
    {s \in SeqsUpTo(1..n, len) : NoDup(s)} \cup SeqsUpTo(1..n, dup)

SrcSeqs == Playlists(NumTracks, MaxSrc, MaxDup)

WideSeqs == Playlists(WideTracks, WideSrc, WideDup)

\* ------------------------------------------------------------ persisted state
\* state["map"] : source id -> {video_id, playlist_item_id}; NoEntry stands for
\* an absent key.
NoEntry == [video_id |-> 0, playlist_item_id |-> 0]

EmptyMap == [t \in Tracks |-> NoEntry]

\* `sid in state["map"]`
InMap(m, sid) == m[sid] # NoEntry

Keys(m) == {t \in Tracks : InMap(m, t)}

VARIABLES
    src,           \* the source playlist, as spotify_tracks would return it
    dest,          \* the destination playlist: sequence of [playlist_item_id, video_id]
    file,          \* contents of state.json ("map"); EmptyMap when the file is absent
    nextPid,       \* the provider's next fresh membership id
    pc,            \* position of the process in main()
    state,         \* main: state["map"]
    sp_tracks,     \* main: sp_tracks (ids; the query is derived from the id)
    index,         \* main: loop index of the running for loop
    yt_positions,  \* main: yt_positions, membership id -> position
    changed,       \* main: changed
    calls,         \* provider calls issued by the current run, in order
    saves,         \* save_state calls of the current run
    fileAtStart,   \* the file as load_state read it in the current run
    destAtStart,   \* the destination as it was when the current run started
    quiet,         \* a run completed and nothing outside the program changed since
    afterQuiet,    \* the current run started in a quiet state
    runs,          \* runs started
    env,           \* edits by other parties
    fn,            \* the enumerator being run: "spotify_tracks" or "youtube_playlist_items"
    raw,           \* the provider's playlist the enumerator reads
    offset,        \* spotify_tracks: offset
    page_token,    \* youtube_playlist_items: page_token
    acc,           \* spotify_tracks: tracks; youtube_playlist_items: items
    epc            \* position of the enumerator: "request", "returned"

mainVars == <<src, dest, file, nextPid, pc, state, sp_tracks, index, yt_positions,
              changed, calls, saves, fileAtStart, destAtStart, quiet, afterQuiet,
              runs, env>>

enumVars == <<fn, raw, offset, page_token, acc, epc>>

vars == <<mainVars, enumVars>>

runVars == <<state, sp_tracks, index, yt_positions, changed, calls, saves,
             fileAtStart, destAtStart, afterQuiet>>

\* ----------------------------------------------------------------- providers
\* search: the first result for the track's query, or no result at all.
NoVideo == 0
VideoOf(sid) == sid
SearchResults(sid) == {VideoOf(sid), NoVideo}

\* playlistItems.insert at a position: later entries shift down; a position past
\* the end appends (the rejecting outcome is the failing call).
InsertAt(d, e, pos) ==
    LET p == Min(pos, Len(d))
    IN  SubSeq(d, 1, p) \o <<e>> \o SubSeq(d, p + 1, Len(d))

Without(d, pid) == SelectSeq(d, LAMBDA e : e.playlist_item_id # pid)

Entry(d, pid) == CHOOSE e \in Range(d) : e.playlist_item_id = pid

\* playlistItems.update with a position: the entry is taken out and put back at
\* that position.
MoveTo(d, pid, pos) == InsertAt(Without(d, pid), Entry(d, pid), pos)

Pids(d) == {e.playlist_item_id : e \in Range(d)}

\* item["snippet"]["position"] of the entry with this membership id
PositionOf(d, pid) == (CHOOSE k \in 1..Len(d) : d[k].playlist_item_id = pid) - 1

\* yt_positions = {item["playlist_item_id"]: item["position"] for item in yt_items}
YtPositions(d) == [p \in Pids(d) |-> PositionOf(d, p)]

Call(op, sid, pid, pos, ok) == [op |-> op, sid |-> sid, pid |-> pid, pos |-> pos, ok |-> ok]

\* ---------------------------------------------------------------------- Init
EnumOff ==
    /\ fn = "none"
    /\ raw = <<>>
    /\ offset = 0
    /\ page_token = 0
    /\ acc = <<>>
    /\ epc = "off"

MainIdle(s) ==
    /\ src = s
    /\ dest = <<>>
    /\ file = EmptyMap
    /\ nextPid = 1
    /\ pc = "idle"
    /\ state = EmptyMap
    /\ sp_tracks = <<>>
    /\ index = 0
    /\ yt_positions = <<>>
    /\ changed = FALSE
    /\ calls = <<>>
    /\ saves = 0
    /\ fileAtStart = EmptyMap
    /\ destAtStart = <<>>
    /\ quiet = FALSE
    /\ afterQuiet = FALSE
    /\ runs = 0
    /\ env = 0

Init == EnumOff /\ \E s \in SrcSeqs : MainIdle(s)

Stopped == pc \in {"idle", "done", "aborted"}

Swallow == pc

\* An uncaught exception ends the process: nothing in main() catches.
Raise == "aborted"

\* --------------------------------------------------------------------- main()
\* load_state() and spotify_tracks(): lines 196-200
Start(maxRuns) ==
    /\ Stopped
    /\ runs < maxRuns
    /\ runs' = runs + 1
    /\ state' = file
    /\ fileAtStart' = file
    /\ destAtStart' = dest
    /\ afterQuiet' = quiet
    /\ quiet' = FALSE
    /\ index' = 0
    /\ yt_positions' = <<>>
    /\ changed' = FALSE
    /\ saves' = 0
    /\ \/ /\ sp_tracks' = src
          /\ calls' = <<Call("tracks", 0, 0, 0, TRUE)>>
          /\ pc' = "list"
       \/ /\ sp_tracks' = <<>>
          /\ calls' = <<Call("tracks", 0, 0, 0, FALSE)>>
          /\ pc' = Raise
    /\ UNCHANGED <<src, dest, file, nextPid, env>>
    /\ UNCHANGED enumVars

\* youtube_playlist_items(), yt_lookup (never read again), changed = False:
\* lines 202-209
ListDest ==
    /\ pc = "list"
    /\ \/ /\ calls' = Append(calls, Call("list", 0, 0, 0, TRUE))
          /\ pc' = "insert"
       \/ /\ calls' = Append(calls, Call("list", 0, 0, 0, FALSE))
          /\ pc' = Raise
    /\ index' = 0
    /\ changed' = FALSE
    /\ UNCHANGED <<src, dest, file, nextPid, state, sp_tracks, yt_positions, saves,
                   fileAtStart, destAtStart, quiet, afterQuiet, runs, env>>
    /\ UNCHANGED enumVars

NeedsInsertAlways(m, sid) == TRUE

NeedsInsertUnlessPresent(m, sid) ==
    ~InMap(m, sid) /\ VideoOf(sid) \notin {e.video_id : e \in Range(dest)}

\* `if sid not in state["map"]`, line 215
NeedsInsert(m, sid) == ~InMap(m, sid)

RecordedAlone(m, sid, video_id, pid) ==
    [EmptyMap EXCEPT ![sid] = [video_id |-> video_id, playlist_item_id |-> pid]]

\* state["map"][sid] = {"video_id": video_id, "playlist_item_id": pid}, lines 220-223
Recorded(m, sid, video_id, pid) ==
    [m EXCEPT ![sid] = [video_id |-> video_id, playlist_item_id |-> pid]]

\* One iteration of the insertion loop, lines 212-226.
InsertStep ==
    /\ pc = "insert"
    /\ index < Len(sp_tracks)
    /\ LET sid == sp_tracks[index + 1]
       IN  IF NeedsInsert(state, sid)
           THEN \E video_id \in SearchResults(sid) :
                  IF video_id = NoVideo
                  THEN \* raise Exception("YouTube search failed")
                       /\ calls' = Append(calls, Call("search", sid, 0, 0, FALSE))
                       /\ pc' = Raise
                       /\ UNCHANGED <<dest, nextPid, state, changed, index>>
                  ELSE \/ \* youtube_insert returns the new membership id
                          /\ dest' = InsertAt(dest, [playlist_item_id |-> nextPid,
                                                      video_id |-> video_id], index)
                          /\ state' = Recorded(state, sid, video_id, nextPid)
                          /\ nextPid' = nextPid + 1
                          /\ changed' = TRUE
                          /\ calls' = calls \o <<Call("search", sid, 0, 0, TRUE),
                                                 Call("insert", sid, nextPid, index, TRUE)>>
                          /\ index' = index + 1
                          /\ pc' = pc
                       \/ \* youtube_insert raises
                          /\ calls' = calls \o <<Call("search", sid, 0, 0, TRUE),
                                                 Call("insert", sid, 0, index, FALSE)>>
                          /\ pc' = Raise
                          /\ UNCHANGED <<dest, nextPid, state, changed, index>>
           ELSE /\ index' = index + 1
                /\ UNCHANGED <<dest, nextPid, state, changed, calls, pc>>
    /\ UNCHANGED <<src, file, sp_tracks, yt_positions, saves, fileAtStart,
                   destAtStart, quiet, afterQuiet, runs, env>>
    /\ UNCHANGED enumVars

\* The second youtube_playlist_items() and yt_positions, lines 229-230.
Relist ==
    /\ pc = "insert"
    /\ index = Len(sp_tracks)
    /\ \/ /\ yt_positions' = YtPositions(dest)
          /\ calls' = Append(calls, Call("list", 0, 0, 0, TRUE))
          /\ pc' = "reorder"
       \/ /\ yt_positions' = yt_positions
          /\ calls' = Append(calls, Call("list", 0, 0, 0, FALSE))
          /\ pc' = Raise
    /\ index' = 0
    /\ UNCHANGED <<src, dest, file, nextPid, state, sp_tracks, changed, saves,
                   fileAtStart, destAtStart, quiet, afterQuiet, runs, env>>
    /\ UNCHANGED enumVars

\* yt_positions.get(pid), line 242: the position the reorder loop compares with
None == -1
CurrentPos(positions, pid) == IF pid \in DOMAIN positions THEN positions[pid] ELSE None

IsNoneNever(current_pos) == FALSE

\* `if current_pos is None`, line 244
IsNone(current_pos) == current_pos = None

\* `if current_pos != index`, line 247
NeedsMove(current_pos, i) == current_pos # i

\* One iteration of the reorder loop, lines 232-251.
ReorderStep ==
    /\ pc = "reorder"
    /\ index < Len(sp_tracks)
    /\ LET sid == sp_tracks[index + 1]
           mapping == state[sid]
           pid == mapping.playlist_item_id
           current_pos == CurrentPos(yt_positions, pid)
       IN  IF mapping = NoEntry \/ IsNone(current_pos)
           THEN /\ index' = index + 1
                /\ UNCHANGED <<dest, changed, calls, pc>>
           ELSE IF NeedsMove(current_pos, index)
                THEN \/ \* the provider moves an entry the playlist holds
                        /\ pid \in Pids(dest)
                        /\ dest' = MoveTo(dest, pid, index)
                        /\ changed' = TRUE
                        /\ calls' = Append(calls, Call("move", sid, pid, index, TRUE))
                        /\ index' = index + 1
                        /\ pc' = pc
                     \/ /\ calls' = Append(calls, Call("move", sid, pid, index, FALSE))
                        /\ pc' = Raise
                        /\ UNCHANGED <<dest, changed, index>>
                ELSE /\ index' = index + 1
                     /\ UNCHANGED <<dest, changed, calls, pc>>
    /\ UNCHANGED <<src, file, nextPid, state, sp_tracks, yt_positions, saves,
                   fileAtStart, destAtStart, quiet, afterQuiet, runs, env>>
    /\ UNCHANGED enumVars

ShouldSaveAlways(c) == TRUE

\* `if changed:` line 253
ShouldSave(c) == c

\* save_state(state) when changed, lines 253-259.
Finish ==
    /\ pc = "reorder"
    /\ index = Len(sp_tracks)
    /\ IF ShouldSave(changed)
       THEN file' = state /\ saves' = saves + 1
       ELSE UNCHANGED <<file, saves>>
    /\ pc' = "done"
    /\ quiet' = TRUE
    /\ UNCHANGED <<src, dest, nextPid, state, sp_tracks, index, yt_positions, changed,
                   calls, fileAtStart, destAtStart, afterQuiet, runs, env>>
    /\ UNCHANGED enumVars

\* The process is interrupted between two steps of a run.
Interrupt ==
    /\ ~Stopped
    /\ pc' = "aborted"
    /\ UNCHANGED <<src, dest, file, nextPid, runVars, quiet, runs, env>>
    /\ UNCHANGED enumVars

\* ---------------------------------------------------------------- other parties
\* Edits happen between runs.
SetSource(seqs, maxEnv) ==
    /\ Stopped
    /\ env < maxEnv
    /\ \E s \in seqs : s # src /\ src' = s
    /\ env' = env + 1
    /\ quiet' = FALSE
    /\ UNCHANGED <<dest, file, nextPid, pc, runVars, runs>>
    /\ UNCHANGED enumVars

DriftMove(maxEnv) ==
    /\ Stopped
    /\ env < maxEnv
    /\ \E pid \in Pids(dest), pos \in 0..(Len(dest) - 1) :
          /\ MoveTo(dest, pid, pos) # dest
          /\ dest' = MoveTo(dest, pid, pos)
    /\ env' = env + 1
    /\ quiet' = FALSE
    /\ UNCHANGED <<src, file, nextPid, pc, runVars, runs>>
    /\ UNCHANGED enumVars

DriftDelete(maxEnv) ==
    /\ Stopped
    /\ env < maxEnv
    /\ \E pid \in Pids(dest) : dest' = Without(dest, pid)
    /\ env' = env + 1
    /\ quiet' = FALSE
    /\ UNCHANGED <<src, file, nextPid, pc, runVars, runs>>
    /\ UNCHANGED enumVars

Next ==
    \/ Start(MaxRuns)
    \/ ListDest
    \/ InsertStep
    \/ Relist
    \/ ReorderStep
    \/ Finish
    \/ Interrupt
    \/ SetSource(SrcSeqs, MaxEnv)
    \/ DriftMove(MaxEnv)
    \/ DriftDelete(MaxEnv)

Spec == Init /\ [][Next]_vars

WideInit == EnumOff /\ \E s \in WideSeqs : MainIdle(s)

WideNext ==
    \/ Start(WideRuns)
    \/ ListDest
    \/ InsertStep
    \/ Relist
    \/ ReorderStep
    \/ Finish
    \/ Interrupt
    \/ SetSource(WideSeqs, WideEnv)
    \/ DriftMove(WideEnv)
    \/ DriftDelete(WideEnv)

WideSpec == WideInit /\ [][WideNext]_vars

\* -------------------------------------------------------------- enumerators
\* item["track"] is null for an entry whose media is gone.
NoTrack == [id |-> 0, is_local |-> FALSE, artist |-> 0, name |-> 0]

Kinds == {"track", "local", "gone"}

\* A source playlist entry as the provider serves it; entry k carries track k.
SpotifyItem(kind, k) ==
    [track |-> IF kind = "gone" THEN NoTrack
               ELSE [id |-> k, is_local |-> (kind = "local"), artist |-> k, name |-> k]]

SpotifyPlaylists ==
    {[k \in 1..Len(kinds) |-> SpotifyItem(kinds[k], k)] : kinds \in SeqsUpTo(Kinds, MaxItems)}

\* A destination playlist entry as the provider serves it.
YoutubeItem(video, k) ==
    [id |-> k, contentDetails |-> [videoId |-> video], snippet |-> [position |-> k - 1]]

YoutubePlaylists ==
    {[k \in 1..Len(videos) |-> YoutubeItem(videos[k], k)] : videos \in SeqsUpTo(1..2, MaxItems)}

\* GET /playlists/{id}/tracks?limit=&offset= : the entries from the offset on, at
\* most `limit` of them, and the link to the rest if there is a rest.
NoNext == -1
SpotifyGet(list, off, limit) ==
    [items |-> SubSeq(list, off + 1, Min(off + limit, Len(list))),
     next  |-> IF off + limit < Len(list) THEN off + limit ELSE NoNext]

\* playlistItems.list(maxResults, pageToken): the page the token names (the
\* first without a token), and the token of the next page if there is one.
NoToken == 0
YoutubeList(list, token, maxResults) ==
    LET start == token * maxResults
    IN  [items |-> SubSeq(list, start + 1, Min(start + maxResults, Len(list))),
         nextPageToken |-> IF start + maxResults < Len(list) THEN token + 1 ELSE NoToken]

SyncableIgnoringLocal(item) == item.track # NoTrack

\* `if not track or track["is_local"]: continue`, line 68
Syncable(item) == item.track # NoTrack /\ ~item.track.is_local

\* the dict appended at lines 71-74
SpotifyEntry(item) ==
    [id |-> item.track.id, query |-> <<item.track.artist, item.track.name, "official audio">>]

\* the dict appended at lines 120-124
YoutubeEntry(item) ==
    [playlist_item_id |-> item.id,
     video_id |-> item.contentDetails.videoId,
     position |-> item.snippet.position]

\* the for loop over data["items"], lines 66-74
SpotifyEntries(items) ==
    LET kept == SelectSeq(items, Syncable)
    IN  [k \in 1..Len(kept) |-> SpotifyEntry(kept[k])]

\* the for loop over res["items"], lines 119-124
YoutubeEntries(items) == [k \in 1..Len(items) |-> YoutubeEntry(items[k])]

\* `offset += 100`, line 79
NextOffset(off) == off + Limit

EnumInit ==
    /\ MainIdle(<<>>)
    /\ \/ fn = "spotify_tracks" /\ raw \in SpotifyPlaylists
       \/ fn = "youtube_playlist_items" /\ raw \in YoutubePlaylists
    /\ offset = 0
    /\ page_token = NoToken
    /\ acc = <<>>
    /\ epc = "request"

\* One round of the while loop of spotify_tracks, lines 58-80; the return at 82.
SpotifyPage ==
    /\ fn = "spotify_tracks"
    /\ epc = "request"
    /\ LET data == SpotifyGet(raw, offset, Limit)
       IN  /\ acc' = acc \o SpotifyEntries(data.items)
           /\ IF data.next = NoNext
              THEN epc' = "returned" /\ offset' = offset
              ELSE epc' = epc /\ offset' = NextOffset(offset)
    /\ UNCHANGED <<fn, raw, page_token, mainVars>>

\* One round of the while loop of youtube_playlist_items, lines 110-130; the
\* return at 132.
YoutubePage ==
    /\ fn = "youtube_playlist_items"
    /\ epc = "request"
    /\ LET res == YoutubeList(raw, page_token, MaxResults)
       IN  /\ acc' = acc \o YoutubeEntries(res.items)
           /\ page_token' = res.nextPageToken
           /\ epc' = IF res.nextPageToken = NoToken THEN "returned" ELSE epc
    /\ UNCHANGED <<fn, raw, offset, mainVars>>

EnumNext == SpotifyPage \/ YoutubePage

\* The interpreter keeps running the loop until it returns.
EnumSpec == EnumInit /\ [][EnumNext]_vars /\ WF_vars(EnumNext)

\* What a complete, ordered enumeration of the provider's playlist is.
WantedTracks ==
    LET kept == SelectSeq(raw, LAMBDA it : it.track # NoTrack /\ it.track.is_local = FALSE)
    IN  [k \in 1..Len(kept) |->
            [id |-> kept[k].track.id,
             query |-> <<kept[k].track.artist, kept[k].track.name, "official audio">>]]

WantedItems ==
    [k \in 1..Len(raw) |->
        [playlist_item_id |-> raw[k].id,
         video_id |-> raw[k].contentDetails.videoId,
         position |-> raw[k].snippet.position]]

\* C9: both enumerators return, and what they return is every entry of every
\* page in page order, spotify_tracks leaving out exactly the entries with no
\* track and the local files.
C9_EnumerationComplete ==
    /\ <>(epc = "returned")
    /\ [](epc = "returned" =>
            acc = IF fn = "spotify_tracks" THEN WantedTracks ELSE WantedItems)

C9_Witness ==
    /\ epc = "returned"
    /\ fn = "spotify_tracks"
    /\ Len(raw) = 3 * Limit
    /\ offset = 2 * Limit
    /\ \E k \in 1..Len(raw) : raw[k].track = NoTrack
    /\ \E k \in 1..Len(raw) : raw[k].track.is_local
    /\ Len(acc) >= 2

\* ------------------------------------------------------------ reading the log
CallsOf(op, sid) == {k \in 1..Len(calls) : calls[k].op = op /\ calls[k].sid = sid}

Mutating == {k \in 1..Len(calls) : calls[k].op \in {"insert", "move"}}

FirstIndex(s, x) == (CHOOSE k \in 1..Len(s) : s[k] = x /\ \A j \in 1..(k - 1) : s[j] # x) - 1

\* The tracks the insertion loop has gone through so far in a run that is alive.
Visited ==
    IF pc = "insert" THEN Range(SubSeq(sp_tracks, 1, index))
    ELSE IF pc \in {"reorder", "done"} THEN Range(sp_tracks)
    ELSE {}

ReorderDone == pc = "reorder" /\ index = Len(sp_tracks)

\* C4: in a run that has not failed, every track the insertion loop has gone
\* through that was absent from the mapping has exactly one search call and one
\* insert call, the insert at the track's index in the source sequence, and one
\* new mapping entry holding that insert's membership id; every other track has
\* no search and no insert, and the mapping gained no other key.
C4_NewTrackDetection ==
    pc \in {"insert", "reorder", "done"} =>
        /\ \A sid \in Tracks :
              IF sid \in Visited /\ ~InMap(fileAtStart, sid)
              THEN /\ Cardinality(CallsOf("search", sid)) = 1
                   /\ Cardinality(CallsOf("insert", sid)) = 1
                   /\ \A k \in CallsOf("insert", sid) :
                         /\ calls[k].pos = FirstIndex(sp_tracks, sid)
                         /\ state[sid] = [video_id |-> VideoOf(sid),
                                          playlist_item_id |-> calls[k].pid]
                         /\ k > 1 /\ calls[k - 1] = Call("search", sid, 0, 0, TRUE)
              ELSE CallsOf("search", sid) = {} /\ CallsOf("insert", sid) = {}
        /\ Keys(state) = Keys(fileAtStart) \cup {sid \in Visited : ~InMap(fileAtStart, sid)}

C4_Witness ==
    /\ pc = "done"
    /\ \E a, b \in Range(sp_tracks) :
          /\ InMap(fileAtStart, a)
          /\ ~InMap(fileAtStart, b)
          /\ FirstIndex(sp_tracks, b) > 0
          /\ InMap(state, b)

\* C5: a failed provider call is the last call of its run and the run is over;
\* a run that ended early, or is still going, has left the state file as
\* load_state read it, whatever it inserted before.
C5_FailureAborts ==
    /\ \A k \in 1..Len(calls) : ~calls[k].ok => (k = Len(calls) /\ pc = "aborted")
    /\ pc # "done" => (file = fileAtStart /\ saves = 0)

C5_Witness ==
    /\ pc = "aborted"
    /\ Len(calls) > 0 /\ ~calls[Len(calls)].ok
    /\ \E k \in 1..Len(calls) : calls[k].op = "insert" /\ calls[k].ok
    /\ state # file
    /\ file = fileAtStart

\* C7: save_state runs at most once in a run, as its last step, writing the
\* mapping of that run, and it runs exactly in the completed runs that issued an
\* insert or a move.
C7_SaveOnceAtEnd ==
    /\ saves \in {0, 1}
    /\ saves = 1 => (pc = "done" /\ Mutating # {} /\ file = state)
    /\ saves = 0 => file = fileAtStart
    /\ (pc = "done" /\ Mutating # {}) => saves = 1

C7_Witness ==
    /\ pc = "done"
    /\ saves = 1
    /\ Mutating # {}
    /\ \A k \in Mutating : calls[k].op = "move"

\* C8: every key the mapping had when the run loaded it keeps its video id and
\* membership id, in memory and on disk, whether or not its track is still in
\* the source; the keys a run adds are source tracks that had none.
C8_AppendOnly ==
    /\ \A t \in Keys(fileAtStart) : state[t] = fileAtStart[t] /\ file[t] = fileAtStart[t]
    /\ Keys(state) \ Keys(fileAtStart) \subseteq Range(sp_tracks)
    /\ \A t \in Keys(file) : file[t] = state[t]

C8_Witness ==
    /\ pc = "done"
    /\ saves = 1
    /\ \E t \in Keys(fileAtStart) : t \notin Range(sp_tracks) /\ file[t] = fileAtStart[t]
    /\ \E t \in Keys(file) : ~InMap(fileAtStart, t)

\* A mapped track whose remembered membership id the destination no longer held
\* when the run started.
Lost(t) ==
    /\ InMap(fileAtStart, t)
    /\ fileAtStart[t].playlist_item_id \notin Pids(destAtStart)

\* C10: for a mapped track whose membership id is gone from the destination, a
\* run issues no search, no insert and no move, keeps the mapping entry, never
\* brings the entry back, and writes the state file only if some other track
\* caused an insert or a move.
C10_MissingEntrySkipped ==
    \A t \in Tracks :
        Lost(t) =>
            /\ CallsOf("search", t) = {}
            /\ CallsOf("insert", t) = {}
            /\ CallsOf("move", t) = {}
            /\ \A k \in 1..Len(calls) : calls[k].pid # fileAtStart[t].playlist_item_id
            /\ state[t] = fileAtStart[t]
            /\ file[t] = fileAtStart[t]
            /\ fileAtStart[t].playlist_item_id \notin Pids(dest)
            /\ saves = 1 => \E k \in Mutating : calls[k].sid # t

C10_Witness ==
    /\ pc = "done"
    /\ saves = 0
    /\ \E t \in Range(sp_tracks) :
          /\ Lost(t)
          /\ FirstIndex(sp_tracks, t) > 0
          /\ Len(dest) > 0

\* Destination entries for a track's video that the loaded mapping does not
\* know: inserted by a run that never reached save_state.
Unrecorded(t) ==
    {e \in Range(destAtStart) : e.video_id = VideoOf(t) /\ ~InMap(fileAtStart, t)}

\* C6: when the destination already holds an entry inserted for track T that no
\* saved mapping records, a run that gets past the insertion loop with T in the
\* source has searched and inserted T once more; the destination then holds the
\* old entry and the new one, and the mapping, in memory and once saved, holds
\* the membership id of the new one.
C6_CrashReinserts ==
    (pc = "reorder" \/ (pc = "done" /\ quiet)) =>
        \A t \in Range(sp_tracks) : \A e \in Unrecorded(t) :
            /\ Cardinality(CallsOf("search", t)) = 1
            /\ Cardinality(CallsOf("insert", t)) = 1
            /\ \A k \in CallsOf("insert", t) : state[t].playlist_item_id = calls[k].pid
            /\ state[t].playlist_item_id > e.playlist_item_id
            /\ {e.playlist_item_id, state[t].playlist_item_id} \subseteq Pids(dest)
            /\ pc = "done" => (saves = 1 /\ file[t] = state[t])

C6_Witness ==
    /\ pc = "done"
    /\ quiet
    /\ \E t \in Range(sp_tracks) :
          /\ Unrecorded(t) # {}
          /\ Cardinality({k \in 1..Len(dest) : dest[k].video_id = VideoOf(t)}) = 2
          /\ file[t].playlist_item_id \notin {e.playlist_item_id : e \in Unrecorded(t)}


\* The membership ids the mapping holds for the source sequence, in source order.
MappedPids == [k \in 1..Len(sp_tracks) |-> state[sp_tracks[k]].playlist_item_id]

\* The run started with every source track mapped, no track twice in the source,
\* and the destination holding exactly the mapped entries, in some order.
FullyMapped ==
    /\ NoDup(sp_tracks)
    /\ \A t \in Range(sp_tracks) : InMap(fileAtStart, t)
    /\ Len(destAtStart) = Len(sp_tracks)
    /\ Pids(destAtStart) = {fileAtStart[t].playlist_item_id : t \in Range(sp_tracks)}

\* C1: a run that starts right after a completed run, with the source and the
\* destination as that run left them, issues no insert and no move and does not
\* write the state file.  (Stated for the plainest case: no track twice in the
\* source, the destination holding exactly the mapped entries.)
C1_Idempotent ==
    (afterQuiet /\ FullyMapped) => (Mutating = {} /\ saves = 0)

\* C2: once the reorder loop of a run over a fully mapped source has finished,
\* every mapped membership id sits at the index of its track in the source.
C2_OrderConverges ==
    (ReorderDone /\ FullyMapped) =>
        \A k \in 1..Len(sp_tracks) : PositionOf(dest, MappedPids[k]) = k - 1

Moves == SelectSeq(calls, LAMBDA c : c.op = "move")

\* C3: with A, B, C mapped, source order [B, C, A] and the destination ordered
\* [A, B, C], the finished reorder loop has left the destination ordered
\* [B, C, A] and has issued one move only, that of A to position 2.
C3_DriftMinimal ==
    (/\ ReorderDone
     /\ sp_tracks = <<2, 3, 1>>
     /\ \A t \in {1, 2, 3} : InMap(fileAtStart, t)
     /\ [k \in 1..Len(destAtStart) |-> destAtStart[k].playlist_item_id]
            = <<fileAtStart[1].playlist_item_id, fileAtStart[2].playlist_item_id,
                fileAtStart[3].playlist_item_id>>)
    => /\ [k \in 1..Len(dest) |-> dest[k].playlist_item_id] = MappedPids
       /\ Moves = <<Call("move", 1, state[1].playlist_item_id, 2, TRUE)>>

====
